---- MODULE Spec2Model ----
(***************************************************************************)
(* Model of the CUPS HTTP address routines, src/cups/http-addr.c:          *)
(* httpAddrEqual, httpAddrLoad, httpAddrLocalhost, httpAddrString and      *)
(* httpGetHostByName, with the per-thread globals (cg->hostent,            *)
(* cg->hostname, cg->ip_addrs, cg->ip_ptrs) the resolver writes its result *)
(* into.                                                                   *)
(*                                                                         *)
(* A C string is a sequence of one-character strings; a 32-bit word in     *)
(* memory is the sequence of its four bytes in address order, so htonl     *)
(* and ntohl are conversions between a number and its bytes.  http_addr_t  *)
(* is a union; it is modelled as a record of the members the routines read *)
(* and write (sa_family, the port shared by sin_port and sin6_port,        *)
(* sin_addr, sin6_addr, sun_path).                                         *)
(***************************************************************************)
EXTENDS Integers, Sequences, FiniteSets, TLC

VARIABLES
  pc,       \* position of the calling program
  src,      \* how the name of the last call was put together, and the platform's answers
  name,     \* the name argument of the last httpGetHostByName call
  cg,       \* the library globals httpGetHostByName writes to
  sys,      \* the platform's static hostent, written by gethostbyname
  ret,      \* the pointer the last call returned: "NULL", "cg" or "sys"
  calls,    \* the platform facilities the last call invoked, in order
  held,     \* the first call's returned pointer and what it then pointed to
  addr,     \* the caller's http_addr_t
  other,    \* a second http_addr_t of the caller
  str,      \* the caller's string buffer
  flag      \* the result of the last predicate call

vars == <<pc, src, name, cg, sys, ret, calls, held, addr, other, str, flag>>

\* ------------------------------------------------------------------------
\* Bounds of the model
\* ------------------------------------------------------------------------

\* capacity of cg->ip_addrs (ip_ptrs holds one more), scaled down
CUPS_MAX_ADDRS == 2
\* most entries in a getaddrinfo result list
MaxResults == 3
\* most '.'-separated components of a generated digit-and-dot name
MaxParts == 5
\* most ':'-separated groups of a generated bracket name
MaxGroups == 5
\* capacity of the caller's string buffer
BufLen == 40
\* capacity of cg->hostname, scaled down
HostnameSize == 16
\* capacity of sun_path in http_addr_t, scaled down
SunPathSize == 16

\* ------------------------------------------------------------------------
\* Characters and numbers
\* ------------------------------------------------------------------------

Digits == <<"0", "1", "2", "3", "4", "5", "6", "7", "8", "9">>

HexDigits == Digits \o <<"a", "b", "c", "d", "e", "f">>

\* index of character c in the sequence of digits ds, 0 when absent
RECURSIVE IndexIn(_, _, _)
IndexIn(c, ds, i) ==
  IF i > Len(ds) THEN 0
  ELSE IF ds[i] = c THEN i
  ELSE IndexIn(c, ds, i + 1)

isdigit(c) == IndexIn(c, Digits, 1) > 0

isxdigit(c) == IndexIn(c, HexDigits, 1) > 0

DigitVal(c) == IndexIn(c, HexDigits, 1) - 1

\* s[p], or the terminating NUL ("") at and past the end of the string
At(s, p) == IF p >= 1 /\ p <= Len(s) THEN s[p] ELSE ""

\* first position q >= p of s that holds no decimal digit
RECURSIVE DecEnd(_, _)
DecEnd(s, p) == IF isdigit(At(s, p)) THEN DecEnd(s, p + 1) ELSE p

\* first position q >= p of s that holds no hexadecimal digit
RECURSIVE HexEnd(_, _)
HexEnd(s, p) == IF isxdigit(At(s, p)) THEN HexEnd(s, p + 1) ELSE p

\* value of the digits s[p..q-1] in the given base
RECURSIVE NumVal(_, _, _, _)
NumVal(s, p, q, base) ==
  IF q <= p THEN 0
  ELSE NumVal(s, p, q - 1, base) * base + DigitVal(s[q - 1])

\* the text of n in the given base (printf %d, %u, %x of a non-negative n)
RECURSIVE NumStr(_, _)
NumStr(n, base) ==
  IF n < base THEN <<HexDigits[n + 1]>>
  ELSE Append(NumStr(n \div base, base), HexDigits[(n % base) + 1])

\* strlcpy/snprintf: at most size-1 characters reach the buffer
Truncate(s, size) ==
  IF size <= 0 THEN <<>>
  ELSE IF Len(s) < size THEN s
  ELSE SubSeq(s, 1, size - 1)

\* A 32-bit unsigned value is the function from significance k \in 0..3 to the
\* byte (v >> 8k) & 255, so that no number of the model exceeds the model checker's
\* integers; WordOf gives the value of a number n < 2^31.
WordOf(n) == [k \in 0..3 |-> (n \div (256 ^ k)) % 256]

ZeroWord == WordOf(0)

\* htonl left out: the bytes of v as a little-endian host stores them
htonl_HostOrder(v) == <<v[0], v[1], v[2], v[3]>>

\* htonl: the four bytes, in memory order, of the network-order word holding v
htonl(v) == <<v[3], v[2], v[1], v[0]>>

\* ntohl: the value held by four bytes of memory in network order
ntohl(b) == [k \in 0..3 |-> b[4 - k]]

\* the memory of a zeroed 32-bit word
ZeroMem == <<0, 0, 0, 0>>

\* ------------------------------------------------------------------------
\* Pointers and the library globals
\* ------------------------------------------------------------------------

AF_UNSPEC == "AF_UNSPEC"
AF_LOCAL == "AF_LOCAL"
AF_INET == "AF_INET"
AF_INET6 == "AF_INET6"
AF_OTHER == "AF_OTHER"

\* A pointer: NULL, the caller's name string, cg->hostname, or cg->ip_addrs[i]
Ptr(to, s, i) == [to |-> to, s |-> s, i |-> i]

NULL == Ptr("NULL", <<>>, 0)

ToName(s) == Ptr("name", s, 0)

ToHostname == Ptr("hostname", <<>>, 0)

ToIpAddrs(i) == Ptr("ip_addrs", <<>>, i)

\* the memory of one cg->ip_addrs[i]: four 32-bit words
ZeroAddr == [w \in 0..3 |-> ZeroMem]

\* the zero-filled globals a thread starts with
InitGlobals ==
  [ h_name      |-> NULL,
    h_aliases   |-> "NULL",
    h_addrtype  |-> AF_UNSPEC,
    h_length    |-> 0,
    h_addr_list |-> "NULL",
    hostname    |-> <<>>,
    ip_addrs    |-> [i \in 0..(CUPS_MAX_ADDRS - 1) |-> ZeroAddr],
    ip_ptrs     |-> [i \in 0..CUPS_MAX_ADDRS |-> NULL] ]

\* http_addr_t: sa_family, the port bytes (sin_port and sin6_port share their
\* place), sin_addr, sin6_addr as four words of memory, and sun_path
HttpAddr(fam, port, a4, a6, path) ==
  [sa_family |-> fam, port |-> port, sin_addr |-> a4, sin6_addr |-> a6,
   sun_path |-> path]

\* an http_addr_t the caller has cleared
ZeroHttpAddr == HttpAddr(AF_UNSPEC, <<0, 0>>, ZeroMem, ZeroAddr, <<>>)

\* ------------------------------------------------------------------------
\* The C library conversions httpGetHostByName uses
\* ------------------------------------------------------------------------

\* sscanf(s, "%u.%u.%u.%u", ...): the values converted before the first
\* mismatch.  s holds digits and '.' only (line 392), and fewer digits than
\* would overflow an unsigned.
RECURSIVE ScanQuad(_, _, _)
ScanQuad(s, p, ip) ==
  IF Len(ip) = 4 THEN ip
  ELSE LET dotOk == ip = <<>> \/ At(s, p) = "."
           q == IF ip = <<>> THEN p ELSE p + 1
           e == DecEnd(s, q)
       IN IF ~dotOk \/ e = q THEN ip
          ELSE ScanQuad(s, e, Append(ip, NumVal(s, q, e, 10)))

\* the return value of that sscanf and the components it stored; EOF is -1
sscanf(s) ==
  LET ip == ScanQuad(s, 1, <<>>)
  IN [n |-> IF s = <<>> THEN -1 ELSE Len(ip), ip |-> ip]

\* the hexadecimal digit of s at q, a zero before the first digit b
HexDigitAt(s, b, q) == IF q >= b THEN DigitVal(s[q]) ELSE 0

\* the 32-bit value of the hexadecimal digits s[b..e-1], at most eight
HexWord(s, b, e) ==
  [k \in 0..3 |-> 16 * HexDigitAt(s, b, e - 2 * k - 2)
                  + HexDigitAt(s, b, e - 2 * k - 1)]

\* strtoul reading decimal digits: the value and the end position
strtoul_Base10(s, p) ==
  LET e == DecEnd(s, p)
  IN IF e = p THEN [val |-> ZeroWord, end |-> p]
     ELSE [val |-> WordOf(NumVal(s, p, e, 10)), end |-> e]

\* strtoul(s + p, &end, 16): the value and the end position.  An optional "0x"
\* before a hexadecimal digit is skipped; with no digit nothing is consumed.
\* The names of the model hold no white space, sign or upper-case letter, and
\* no run of more than eight hexadecimal digits.
strtoul(s, p) ==
  LET b == IF At(s, p) = "0" /\ At(s, p + 1) = "x" /\ isxdigit(At(s, p + 2))
             THEN p + 2 ELSE p
      e == HexEnd(s, b)
  IN IF e = b THEN [val |-> ZeroWord, end |-> p]
     ELSE [val |-> HexWord(s, b, e), end |-> e]

\* the loop of lines 364-375 from its state (i, nameptr, cg->ip_addrs[0]) to
\* the state it leaves
RECURSIVE BracketLoop(_, _, _, _)
BracketLoop(s, i, p, ip) ==
  IF At(s, p) = "" \/ i >= 4 \/ At(s, p) = "]"
    THEN [i |-> i, p |-> p, ip |-> ip]
  ELSE LET r == IF At(s, p) = ":" THEN [val |-> ZeroWord, end |-> p]
                ELSE strtoul(s, p)
           mem == IF At(s, p) = ":" THEN ZeroMem ELSE htonl(r.val)
           q == IF At(s, r.end) = ":" \/ At(s, r.end) = "]" THEN r.end + 1
                ELSE r.end
       IN BracketLoop(s, i + 1, q, [ip EXCEPT ![i] = mem])

\* the loop of lines 377-381
ZeroFill(i, ip) == [w \in 0..3 |-> IF w >= i THEN ZeroMem ELSE ip[w]]

\* the loop of line 392: every character is a digit or '.'
RECURSIVE DigitsAndDots(_, _)
DigitsAndDots(s, p) ==
  IF isdigit(At(s, p)) \/ At(s, p) = "." THEN DigitsAndDots(s, p + 1)
  ELSE At(s, p) = ""

\* lines 407-408: the four components packed into one value
PackQuad(ip) == [k \in 0..3 |-> ip[4 - k] % 256]

LocalhostName == <<"l", "o", "c", "a", "l", "h", "o", "s", "t">>

LoopbackName == <<"1", "2", "7", ".", "0", ".", "0", ".", "1">>

\* ------------------------------------------------------------------------
\* httpGetHostByName
\* ------------------------------------------------------------------------

\* what one call leaves: the pointer returned, the globals, the platform's
\* static hostent, the facilities invoked, and whether the call returned at all
Out(r, g, sy, cs, returned) ==
  [ret |-> r, cg |-> g, sys |-> sy, calls |-> cs, returned |-> returned]

\* lines 330-347: a domain socket path
UnixEntry(n, g, sy) ==
  Out("cg",
      [g EXCEPT !.h_name = ToName(n), !.h_aliases = "NULL",
                !.h_addrtype = AF_LOCAL, !.h_length = Len(n) + 1,
                !.h_addr_list = "ip_ptrs",
                !.ip_ptrs = [@ EXCEPT ![0] = ToName(n), ![1] = NULL]],
      sy, <<>>, TRUE)

\* lines 350-389: a bracketed IPv6 literal
BracketEntry(n, g, sy) ==
  LET l == BracketLoop(n, 0, 2, g.ip_addrs[0])
      g1 == [g EXCEPT !.h_name = ToName(n), !.h_aliases = "NULL",
                      !.h_addrtype = AF_INET6, !.h_length = 16,
                      !.h_addr_list = "ip_ptrs",
                      !.ip_ptrs = [@ EXCEPT ![0] = ToIpAddrs(0), ![1] = NULL],
                      !.ip_addrs = [@ EXCEPT ![0] = ZeroFill(l.i, l.ip)]]
  IN Out(IF At(n, l.p) # "" THEN "NULL" ELSE "cg", g1, sy, <<>>, TRUE)

\* lines 394-425: a dotted-quad IPv4 literal
QuadEntry(n, g, sy) ==
  LET sc == sscanf(n)
  IN IF sc.n # 4 THEN Out("NULL", g, sy, <<>>, TRUE)
     ELSE IF \E k \in 1..4 : sc.ip[k] > 255 THEN Out("NULL", g, sy, <<>>, TRUE)
     ELSE Out("cg",
              [g EXCEPT !.ip_addrs = [@ EXCEPT ![0] =
                                        [@ EXCEPT ![0] = htonl(PackQuad(sc.ip))]],
                        !.h_name = ToName(n), !.h_aliases = "NULL",
                        !.h_addrtype = AF_INET, !.h_length = 4,
                        !.h_addr_list = "ip_ptrs",
                        !.ip_ptrs = [@ EXCEPT ![0] = ToIpAddrs(0), ![1] = NULL]],
              sy, <<>>, TRUE)

\* a char * that is NULL
NullStr == <<"(null)">>

\* what strlcpy leaves in its destination when its source is NULL and it returns
Garbage == <<"?">>

\* gethostbyname(name): the platform's answer env.legacy, in its static hostent
gethostbyname(env, g, sy, cs) ==
  IF env.legacy.found
    THEN Out("sys", g, env.legacy.host, Append(cs, "gethostbyname"), TRUE)
    ELSE Out("NULL", g, sy, Append(cs, "gethostbyname"), TRUE)

\* lines 458-460 and 464-466: the first entry of the family, 0 when there is none
RECURSIVE FirstOf(_, _, _)
FirstOf(results, fam, k) ==
  IF k > Len(results) THEN 0
  ELSE IF results[k].ai_family = fam THEN k
  ELSE FirstOf(results, fam, k + 1)

\* lines 496-514: the copy loop from its state (i, current, globals)
RECURSIVE CopyLoop(_, _, _, _)
CopyLoop(results, i, k, g) ==
  IF ~(i < CUPS_MAX_ADDRS /\ k <= Len(results)) THEN [i |-> i, cg |-> g]
  ELSE IF results[k].ai_family # g.h_addrtype THEN CopyLoop(results, i, k + 1, g)
  ELSE LET address == results[k].ai_addr
           mem == IF results[k].ai_family = AF_INET
                    THEN [g.ip_addrs[i] EXCEPT ![0] = address.sin_addr]
                    ELSE address.sin6_addr
       IN CopyLoop(results, i + 1, k + 1,
                   [g EXCEPT !.ip_addrs = [@ EXCEPT ![i] = mem],
                             !.ip_ptrs = [@ EXCEPT ![i] = ToIpAddrs(i)]])

\* lines 480-524: the hostent built from the getaddrinfo results, cur the
\* index of the entry chosen.  strlcpy from a NULL ai_canonname is undefined:
\* the call does not return, or it goes on with cg->hostname holding garbage.
FillFromResults(env, cur, g, sy, cs) ==
  LET canon == env.results[cur].ai_canonname
      fam == env.results[cur].ai_family
      g1 == [g EXCEPT !.hostname = IF canon = NullStr THEN Garbage
                                   ELSE Truncate(canon, HostnameSize),
                      !.h_name = ToHostname, !.h_aliases = "NULL",
                      !.h_addrtype = fam, !.h_addr_list = "ip_ptrs",
                      !.h_length = IF fam = AF_INET6 THEN 16 ELSE 4]
      l == CopyLoop(env.results, 0, 1, g1)
  IN IF canon = NullStr /\ env.ub = "crash" THEN Out("NULL", g, sy, cs, FALSE)
     ELSE Out("cg", [l.cg EXCEPT !.ip_ptrs = [@ EXCEPT ![l.i] = NULL]],
              sy, cs, TRUE)

\* the fallback of line 451 left out: a getaddrinfo failure is the answer
LookupEntry_NoFallback(n, env, g, sy) ==
  LET cs == <<"getaddrinfo">>
      v6 == FirstOf(env.results, AF_INET6, 1)
      v4 == FirstOf(env.results, AF_INET, 1)
  IN IF ~env.ok THEN Out("NULL", g, sy, cs, TRUE)
     ELSE IF v6 # 0 THEN FillFromResults(env, v6, g, sy, cs)
     ELSE IF v4 # 0 THEN FillFromResults(env, v4, g, sy, cs)
     ELSE gethostbyname(env, g, sy, cs)

\* lines 427-525: a name for the platform's resolver
LookupEntry(n, env, g, sy) ==
  LET cs == <<"getaddrinfo">>
      v6 == FirstOf(env.results, AF_INET6, 1)
      v4 == FirstOf(env.results, AF_INET, 1)
  IN IF ~env.ok THEN gethostbyname(env, g, sy, cs)
     ELSE IF v6 # 0 THEN FillFromResults(env, v6, g, sy, cs)
     ELSE IF v4 # 0 THEN FillFromResults(env, v4, g, sy, cs)
     ELSE gethostbyname(env, g, sy, cs)

\* the substitution left out
Substitute_None(n) == n

\* lines 313-314: "localhost" is looked up as "127.0.0.1"
Substitute(n) == IF n = LocalhostName THEN LoopbackName ELSE n

\* the whole of httpGetHostByName(n) from globals g and static hostent sy, the
\* platform answering as env says
httpGetHostByName(n, env, g, sy) ==
  LET m == Substitute(n)
  IN IF At(m, 1) = "/" THEN UnixEntry(m, g, sy)
     ELSE IF At(m, 1) = "[" THEN BracketEntry(m, g, sy)
     ELSE IF DigitsAndDots(m, 1) THEN QuadEntry(m, g, sy)
     ELSE LookupEntry(m, env, g, sy)

\* ------------------------------------------------------------------------
\* The address routines
\* ------------------------------------------------------------------------

\* the hostent a returned pointer refers to, its pointers followed: the name,
\* and the addresses of h_addr_list up to the first NULL
RECURSIVE AddrList(_, _)
AddrList(g, i) ==
  IF i > CUPS_MAX_ADDRS \/ g.ip_ptrs[i] = NULL THEN <<>>
  ELSE <<IF g.ip_ptrs[i].to = "name" THEN g.ip_ptrs[i].s
         ELSE g.ip_addrs[g.ip_ptrs[i].i]>> \o AddrList(g, i + 1)

HostEnt(hname, fam, len, addrs) ==
  [h_name |-> hname, h_addrtype |-> fam, h_length |-> len, addrs |-> addrs]

Deref(p, g, sy) ==
  IF p = "sys" THEN sy
  ELSE HostEnt(IF g.h_name.to = "hostname" THEN g.hostname ELSE g.h_name.s,
               g.h_addrtype, g.h_length,
               IF g.h_addr_list = "NULL" THEN <<>> ELSE AddrList(g, 0))

\* htons: the two bytes, in memory order, of the network-order port
htons(port) == <<(port \div 256) % 256, port % 256>>

\* lines 126-160: host->h_addr_list[n] loaded into addr, n counted from 0
httpAddrLoad(host, port, n, a) ==
  LET from == host.addrs[n + 1]
  IN IF host.h_addrtype = AF_INET6
       THEN [a EXCEPT !.port = htons(port),
                      !.sin6_addr = [w \in 0..3 |->
                                       IF 4 * (w + 1) <= host.h_length
                                         THEN from[w] ELSE @[w]],
                      !.sa_family = AF_INET6]
     ELSE IF host.h_addrtype = AF_LOCAL
       THEN [a EXCEPT !.sa_family = AF_LOCAL,
                      !.sun_path = Truncate(from, SunPathSize)]
     ELSE IF host.h_addrtype = AF_INET
       THEN [a EXCEPT !.port = htons(port),
                      !.sin_addr = IF 4 <= host.h_length THEN from[0] ELSE @,
                      !.sa_family = AF_INET]
     ELSE a

\* printf("%x") of a 32-bit value: its hexadecimal digits from the first
\* that is not zero
RECURSIVE StripZeros(_)
StripZeros(s) ==
  IF Len(s) > 1 /\ s[1] = "0" THEN StripZeros(Tail(s)) ELSE s

HexByte(b) == <<HexDigits[(b \div 16) + 1], HexDigits[(b % 16) + 1]>>

HexStr(v) == StripZeros(HexByte(v[3]) \o HexByte(v[2]) \o HexByte(v[1]) \o HexByte(v[0]))

\* lines 258-283: the text of addr, in a buffer of slen characters
httpAddrString(a, slen) ==
  IF a.sa_family = AF_INET6
    THEN Truncate(<<"[">> \o HexStr(ntohl(a.sin6_addr[0])) \o <<":">>
                  \o HexStr(ntohl(a.sin6_addr[1])) \o <<":">>
                  \o HexStr(ntohl(a.sin6_addr[2])) \o <<":">>
                  \o HexStr(ntohl(a.sin6_addr[3])) \o <<"]">>, slen)
  ELSE IF a.sa_family = AF_LOCAL THEN Truncate(a.sun_path, slen)
  ELSE IF a.sa_family = AF_INET
    THEN LET temp == ntohl(a.sin_addr)
         IN Truncate(NumStr(temp[3], 10) \o <<".">> \o NumStr(temp[2], 10)
                     \o <<".">> \o NumStr(temp[1], 10) \o <<".">>
                     \o NumStr(temp[0], 10), slen)
  ELSE Truncate(<<"U", "N", "K", "N", "O", "W", "N">>, slen)

\* the text of line 236 left out: a failed lookup leaves the buffer as it was
httpAddrLookup_NoText(a, buf, namelen, answer) ==
  IF a.sa_family = AF_LOCAL
    THEN [ret |-> "name", name |-> Truncate(a.sun_path, namelen), calls |-> <<>>]
  ELSE LET asked == a.sa_family \in {AF_INET6, AF_INET}
           cs == IF asked THEN <<"gethostbyaddr">> ELSE <<>>
       IN IF ~(asked /\ answer.found)
            THEN [ret |-> "NULL", name |-> buf, calls |-> cs]
            ELSE [ret |-> "name", name |-> Truncate(answer.h_name, namelen),
                  calls |-> cs]

\* lines 214-242: the name of addr, in the buffer buf of namelen characters;
\* answer is what gethostbyaddr gives when it is asked.  The result is the
\* pointer returned ("name" for the buffer), the buffer, and the facilities
\* invoked.
httpAddrLookup(a, buf, namelen, answer) ==
  IF a.sa_family = AF_LOCAL
    THEN [ret |-> "name", name |-> Truncate(a.sun_path, namelen), calls |-> <<>>]
  ELSE LET asked == a.sa_family \in {AF_INET6, AF_INET}
           cs == IF asked THEN <<"gethostbyaddr">> ELSE <<>>
       IN IF ~(asked /\ answer.found)
            THEN [ret |-> "NULL", name |-> httpAddrString(a, namelen),
                  calls |-> cs]
            ELSE [ret |-> "name", name |-> Truncate(answer.h_name, namelen),
                  calls |-> cs]

\* the ports compared as well
httpAddrEqual_WithPort(addr1, addr2) ==
  IF addr1.sa_family # addr2.sa_family THEN FALSE
  ELSE IF addr1.sa_family = AF_LOCAL THEN addr1.sun_path = addr2.sun_path
  ELSE IF addr1.sa_family = AF_INET6
    THEN addr1.sin6_addr = addr2.sin6_addr /\ addr1.port = addr2.port
  ELSE addr1.sin_addr = addr2.sin_addr /\ addr1.port = addr2.port

\* lines 74-87
httpAddrEqual(addr1, addr2) ==
  IF addr1.sa_family # addr2.sa_family THEN FALSE
  ELSE IF addr1.sa_family = AF_LOCAL THEN addr1.sun_path = addr2.sun_path
  ELSE IF addr1.sa_family = AF_INET6 THEN addr1.sin6_addr = addr2.sin6_addr
  ELSE addr1.sin_addr = addr2.sin_addr

\* IN6_IS_ADDR_UNSPECIFIED and IN6_IS_ADDR_LOOPBACK of the platform: ::, ::1
IN6_IS_ADDR_UNSPECIFIED(a6) == \A w \in 0..3 : a6[w] = ZeroMem

IN6_IS_ADDR_LOOPBACK(a6) ==
  /\ \A w \in 0..2 : a6[w] = ZeroMem
  /\ a6[3] = htonl(WordOf(1))

\* lines 53-62
httpAddrAny(a) ==
  \/ a.sa_family = AF_INET6 /\ IN6_IS_ADDR_UNSPECIFIED(a.sin6_addr)
  \/ a.sa_family = AF_INET /\ ntohl(a.sin_addr) = WordOf(0)

\* 0x7f000001 as a 32-bit value
Loopback4 == [k \in 0..3 |-> IF k = 3 THEN 127 ELSE IF k = 0 THEN 1 ELSE 0]

\* the whole of 127.0.0.0/8 taken for the loopback address
httpAddrLocalhost_Net8(a) ==
  \/ /\ a.sa_family = AF_INET6
     /\ \/ IN6_IS_ADDR_LOOPBACK(a.sin6_addr)
        \/ IN6_IS_ADDR_UNSPECIFIED(a.sin6_addr)
  \/ a.sa_family = AF_LOCAL
  \/ a.sa_family = AF_INET /\ ntohl(a.sin_addr)[3] = 127

\* lines 173-188
httpAddrLocalhost(a) ==
  \/ /\ a.sa_family = AF_INET6
     /\ \/ IN6_IS_ADDR_LOOPBACK(a.sin6_addr)
        \/ IN6_IS_ADDR_UNSPECIFIED(a.sin6_addr)
  \/ a.sa_family = AF_LOCAL
  \/ a.sa_family = AF_INET /\ ntohl(a.sin_addr) = Loopback4

\* ------------------------------------------------------------------------
\* Inputs
\* ------------------------------------------------------------------------

\* the concatenation of the texts of parts with sep between them
RECURSIVE Join(_, _)
Join(parts, sep) ==
  IF parts = <<>> THEN <<>>
  ELSE IF Len(parts) = 1 THEN parts[1]
  ELSE parts[1] \o sep \o Join(Tail(parts), sep)

\* the sequences of 1 to n elements of S
SeqsUpTo(S, n) == UNION {[1..k -> S] : k \in 1..n}

\* texts of one component of a digit-and-dot name
OctetTexts == {<<>>, <<"0">>, <<"0", "1">>, <<"2", "5", "5">>, <<"2", "5", "6">>}

\* texts of one group of a bracket name
GroupTexts == {<<>>, <<"1">>, <<"a", "0">>}

\* what follows the closing bracket of a bracket name
TailTexts == {<<>>, <<"x">>, <<"a">>, <<":">>, <<"]">>}

Source(kind, parts, tail) == [kind |-> kind, parts |-> parts, tail |-> tail]

QuadSources == {Source("quad", ps, <<>>) : ps \in SeqsUpTo(OctetTexts, MaxParts)}

BracketSources ==
  {Source("bracket", gs, tl) : gs \in SeqsUpTo(GroupTexts, MaxGroups), tl \in TailTexts}

\* the name a source stands for
NameOf(s) ==
  IF s.kind = "quad" THEN Join(s.parts, <<".">>)
  ELSE IF s.kind = "bracket" THEN <<"[">> \o Join(s.parts, <<":">>) \o <<"]">> \o s.tail
  ELSE s.parts[1]

\* no platform answer: the call is not to reach the resolver
NoHost == [h_name |-> <<>>, h_addrtype |-> AF_UNSPEC, h_length |-> 0, addrs |-> <<>>]

Env(ok, results, found, host, ub) ==
  [ok |-> ok, results |-> results, legacy |-> [found |-> found, host |-> host],
   ub |-> ub]

NoEnv == Env(FALSE, <<>>, FALSE, NoHost, "crash")

Ports == {0, 631}

\* ------------------------------------------------------------------------
\* Literal names: resolve, load, print
\* ------------------------------------------------------------------------

Blank ==
  /\ pc = "start"
  /\ src = Source("none", <<>>, <<>>)
  /\ name = <<>>
  /\ cg = InitGlobals
  /\ sys = NoHost
  /\ ret = "NULL"
  /\ calls = <<>>
  /\ held = [ptr |-> "NULL", view |-> NoHost]
  /\ addr = ZeroHttpAddr
  /\ other = ZeroHttpAddr
  /\ str = <<>>
  /\ flag = [op |-> "none", val |-> FALSE]

InitLit == Blank

\* the caller resolves a literal name
LitResolve ==
  /\ pc = "start"
  /\ \E s \in QuadSources \cup BracketSources :
       LET o == httpGetHostByName(NameOf(s), NoEnv, cg, sys)
       IN /\ src' = s
          /\ name' = NameOf(s)
          /\ cg' = o.cg
          /\ sys' = o.sys
          /\ ret' = o.ret
          /\ calls' = o.calls
  /\ pc' = "resolved"
  /\ UNCHANGED <<held, addr, other, str, flag>>

\* the caller loads the first address of the host entry returned
LitLoad ==
  /\ pc = "resolved"
  /\ ret # "NULL"
  /\ \E port \in Ports : addr' = httpAddrLoad(Deref(ret, cg, sys), port, 0, addr)
  /\ pc' = "loaded"
  /\ UNCHANGED <<src, name, cg, sys, ret, calls, held, other, str, flag>>

\* the caller prints the address loaded
LitString ==
  /\ pc = "loaded"
  /\ str' = httpAddrString(addr, BufLen)
  /\ pc' = "printed"
  /\ UNCHANGED <<src, name, cg, sys, ret, calls, held, addr, other, flag>>

NextLit == LitResolve \/ LitLoad \/ LitString

SpecLit == InitLit /\ [][NextLit]_vars

\* ------------------------------------------------------------------------
\* Claims about literal names (SpecLit)
\* ------------------------------------------------------------------------

\* the number a text of digits denotes in the given base, 0 for no digits
TextVal(g, base) == NumVal(g, 1, Len(g) + 1, base)

\* a.b.c.d: four components, each with a digit, each at most 255
ValidQuad(parts) ==
  /\ Len(parts) = 4
  /\ \A k \in 1..4 : parts[k] # <<>> /\ TextVal(parts[k], 10) <= 255

\* no component is written with a leading zero
NoLeadingZeros(parts) ==
  \A k \in 1..Len(parts) : Len(parts[k]) > 1 => parts[k][1] # "0"

\* C1: a name of digits and '.' resolves only if it has exactly four decimal
\* components, each in 0..255; every other such name gives NULL.
C1_OnlyFourOctetsResolve ==
  (pc = "resolved" /\ src.kind = "quad" /\ ret # "NULL") => ValidQuad(src.parts)

\* C2: a bracket name with at least one character after the closing ']'
\* gives NULL.
C2_TrailingGarbageFails ==
  (pc = "resolved" /\ src.kind = "bracket" /\ src.tail # <<>>) => ret = "NULL"

\* C4 as stated: for every dotted quad of four components in 0..255, resolving,
\* loading and printing gives back the text of the name.
C4_RoundTripAnyQuad ==
  (pc = "printed" /\ src.kind = "quad" /\ ValidQuad(src.parts)) => str = name

\* C4 as amended: for every dotted quad of four components in 0..255, none
\* written with a leading zero, resolving, loading and printing gives back the
\* text of the name.
C4_RoundTripCanonicalQuad ==
  (pc = "printed" /\ src.kind = "quad" /\ ValidQuad(src.parts)
     /\ NoLeadingZeros(src.parts)) => str = name

\* a canonical quad with distinct octets has been resolved, loaded and printed
C4_Witness ==
  /\ pc = "printed"
  /\ src.kind = "quad"
  /\ src.parts = <<<<"2", "5", "5">>, <<"0">>, <<"0">>, <<"0">>>>
  /\ str = name

\* C5: a bracket name of at most four groups with nothing after ']' gives one
\* IPv6 address whose i-th word is the hexadecimal value of group i, an empty
\* group giving zero and the groups left out zero; more than four groups give
\* NULL.
C5_BracketGroupsParsed ==
  (pc = "resolved" /\ src.kind = "bracket" /\ src.tail = <<>>) =>
    IF Len(src.parts) > 4 THEN ret = "NULL"
    ELSE /\ ret = "cg"
         /\ LET h == Deref(ret, cg, sys)
            IN /\ h.h_addrtype = AF_INET6
               /\ Len(h.addrs) = 1
               /\ \A w \in 0..3 :
                    ntohl(h.addrs[1][w]) =
                      IF w + 1 <= Len(src.parts)
                        THEN WordOf(TextVal(src.parts[w + 1], 16))
                        ELSE ZeroWord

\* ------------------------------------------------------------------------
\* Two calls in sequence, the platform's resolver answering (Spec)
\* ------------------------------------------------------------------------

\* the names the caller passes: one or more for every rule, among them names
\* that fail after the globals are written and names another rule would take
\* were it tried first
CallNames ==
  { LocalhostName,
    LoopbackName,
    <<>>,
    <<"1", ".", "2", ".", "3">>,
    <<"1", "0", ".", "0", ".", "0", ".", "9">>,
    <<"/", "a">>,
    <<"/", "[", "1", "]">>,
    <<"[", ":", ":", "1", "]">>,
    <<"[", "2", "]", "x">>,
    <<"[", "/">>,
    <<"h", "o", "s", "t">>,
    <<"1", "x">> }

\* the canonical name the resolver reports
CanonName == <<"h", ".", "e", "x">>

\* the k-th entry of a getaddrinfo list: an address that tells the entries
\* apart, and ai_canonname set in the first entry only
AddrInfo(fam, k) ==
  [ ai_family |-> fam,
    ai_addr |-> HttpAddr(fam, <<0, 0>>, <<10, 0, 0, k>>,
                         [w \in 0..3 |-> IF w = 0 THEN <<32, 1, 13, 184>>
                                         ELSE IF w = 3 THEN <<0, 0, 0, k>>
                                         ELSE ZeroMem],
                         <<>>),
    ai_canonname |-> IF k = 1 THEN CanonName ELSE NullStr ]

ResultLists ==
  { [k \in 1..Len(fams) |-> AddrInfo(fams[k], k)] :
      fams \in SeqsUpTo({AF_INET, AF_INET6, AF_OTHER}, MaxResults) }

\* the host entries gethostbyname may leave in its static storage
LegacyHosts ==
  { HostEnt(<<"h", ".", "o", "l", "d">>, AF_INET, 4,
            <<[ZeroAddr EXCEPT ![0] = <<192, 168, 0, 1>>]>>),
    HostEnt(<<"h", "6">>, AF_INET6, 16,
            <<[ZeroAddr EXCEPT ![3] = <<0, 0, 0, 1>>],
              [ZeroAddr EXCEPT ![3] = <<0, 0, 0, 2>>]>>) }

\* the list holds an IPv4 or an IPv6 entry
Usable(rs) == \E k \in 1..Len(rs) : rs[k].ai_family \in {AF_INET, AF_INET6}

\* what gethostbyname may answer
LegacyAnswers ==
  {[found |-> FALSE, host |-> NoHost]}
  \cup {[found |-> TRUE, host |-> h] : h \in LegacyHosts}

\* what the platform may answer to one call: getaddrinfo fails, or gives a
\* list with no IPv4 or IPv6 entry, or gives a list with one; gethostbyname's
\* answer is drawn where getaddrinfo leaves the name unresolved
Environments ==
  { Env(FALSE, <<>>, l.found, l.host, "crash") : l \in LegacyAnswers }
  \cup { Env(TRUE, rs, l.found, l.host, "crash") :
           rs \in {r \in ResultLists : ~Usable(r)}, l \in LegacyAnswers }
  \cup { Env(TRUE, rs, FALSE, NoHost, ub) :
           rs \in {r \in ResultLists : Usable(r)}, ub \in {"crash", "garbage"} }

\* the name is for the platform's resolver: no literal rule takes it
ForResolver(n) ==
  /\ n # LocalhostName
  /\ At(n, 1) # "/"
  /\ At(n, 1) # "["
  /\ \E k \in 1..Len(n) : n[k] # "." /\ ~isdigit(n[k])

Init == Blank

\* one call of httpGetHostByName by the caller, who keeps the first result
Call(from, to) ==
  /\ pc = from
  /\ \E n \in CallNames :
     \E env \in IF ForResolver(n) THEN Environments ELSE {NoEnv} :
       LET o == httpGetHostByName(n, env, cg, sys)
       IN /\ src' = [kind |-> "call", env |-> env]
          /\ name' = n
          /\ cg' = o.cg
          /\ sys' = o.sys
          /\ ret' = o.ret
          /\ calls' = o.calls
          /\ pc' = IF o.returned THEN to ELSE "crashed"
          /\ held' = IF from = "start" /\ o.returned /\ o.ret # "NULL"
                       THEN [ptr |-> o.ret, view |-> Deref(o.ret, o.cg, o.sys)]
                       ELSE held
  /\ UNCHANGED <<addr, other, str, flag>>

FirstCall == Call("start", "called1")

SecondCall == Call("called1", "called2")

Next == FirstCall \/ SecondCall

Spec == Init /\ [][Next]_vars

\* ------------------------------------------------------------------------
\* Claims about calls in sequence and the resolver (Spec)
\* ------------------------------------------------------------------------

Called == pc \in {"called1", "called2"}

\* C3: the result of the first call (family, name, address list), read through
\* the pointer it returned, is unchanged after the second call has completed,
\* whether that call succeeded or failed.
C3_FirstResultUnchanged ==
  (pc = "called2" /\ held.ptr # "NULL") =>
    Deref(held.ptr, cg, sys) = held.view

Chosen(rs) ==
  LET fam == IF \E k \in 1..Len(rs) : rs[k].ai_family = AF_INET6
               THEN AF_INET6 ELSE AF_INET
  IN SelectSeq(rs, LAMBDA e : e.ai_family = fam)

\* the host entry lists the first CUPS_MAX_ADDRS chosen entries, in order
ListsChosen(h, rs) ==
  LET want == Chosen(rs)
      n == IF Len(want) < CUPS_MAX_ADDRS THEN Len(want) ELSE CUPS_MAX_ADDRS
  IN /\ h.h_addrtype = want[1].ai_family
     /\ Len(h.addrs) = n
     /\ \A k \in 1..n :
          IF h.h_addrtype = AF_INET6
            THEN h.addrs[k] = want[k].ai_addr.sin6_addr
            ELSE h.addrs[k][0] = want[k].ai_addr.sin_addr

\* C7: when getaddrinfo succeeds with an IPv4 or IPv6 entry, the family is
\* IPv6 if any entry is IPv6 and IPv4 otherwise, the address list is the
\* entries of that family in order, at most CUPS_MAX_ADDRS of them, ended
\* after the last, and the name is the resolver's canonical name.
C7_ResultFromGetaddrinfo ==
  (pc \in {"called1", "called2", "crashed"} /\ ForResolver(name)
     /\ src.env.ok /\ Usable(src.env.results)) =>
    /\ pc # "crashed"
    /\ ret = "cg"
    /\ ListsChosen(Deref(ret, cg, sys), src.env.results)
    /\ Deref(ret, cg, sys).h_name = src.env.results[1].ai_canonname

\* the part of C7 that is about the family and the address list, for the
\* calls that return
FamilyAndListFromGetaddrinfo ==
  (Called /\ ForResolver(name) /\ src.env.ok /\ Usable(src.env.results)) =>
    /\ ret = "cg"
    /\ ListsChosen(Deref(ret, cg, sys), src.env.results)

\* C8: for a name no literal rule takes, if getaddrinfo fails or gives no IPv4
\* and no IPv6 entry, the call returns what gethostbyname returns, unmodified,
\* and fails only if gethostbyname fails; each facility is invoked once.
C8_LegacyFallback ==
  (Called /\ ForResolver(name)
     /\ (~src.env.ok \/ ~Usable(src.env.results))) =>
    /\ calls = <<"getaddrinfo", "gethostbyname">>
    /\ IF src.env.legacy.found
         THEN ret = "sys" /\ sys = src.env.legacy.host
         ELSE ret = "NULL"

\* getaddrinfo has failed in a second call and gethostbyname's entry has been
\* returned
C8_Witness ==
  /\ pc = "called2"
  /\ ForResolver(name)
  /\ ~src.env.ok
  /\ src.env.legacy.found
  /\ ret = "sys"
  /\ sys = src.env.legacy.host

\* ------------------------------------------------------------------------
\* The predicates on addresses (SpecAddr)
\* ------------------------------------------------------------------------

\* the addresses the caller may hold: every family, with every member of the
\* union filled in
Addresses ==
  { HttpAddr(fam, port, a4, a6, path) :
      fam \in {AF_UNSPEC, AF_LOCAL, AF_INET, AF_INET6},
      port \in {htons(0), htons(631)},
      a4 \in {ZeroMem, <<127, 0, 0, 1>>, <<127, 0, 0, 2>>, <<1, 0, 0, 127>>},
      a6 \in {ZeroAddr, [ZeroAddr EXCEPT ![3] = <<0, 0, 0, 1>>],
              [ZeroAddr EXCEPT ![0] = <<0, 0, 0, 1>>]},
      path \in {<<>>, <<"/", "a">>} }

InitAddr ==
  /\ pc = "start"
  /\ src = Source("none", <<>>, <<>>)
  /\ name = <<>>
  /\ cg = InitGlobals
  /\ sys = NoHost
  /\ ret = "NULL"
  /\ calls = <<>>
  /\ held = [ptr |-> "NULL", view |-> NoHost]
  /\ addr \in Addresses
  /\ other \in Addresses
  /\ str = <<>>
  /\ flag = [op |-> "none", val |-> FALSE]

\* the caller compares its two addresses
AddrEqual ==
  /\ pc = "start"
  /\ flag' = [op |-> "equal", val |-> httpAddrEqual(addr, other)]
  /\ pc' = "done"
  /\ UNCHANGED <<src, name, cg, sys, ret, calls, held, addr, other, str>>

\* the caller asks whether its address is the local host
AddrLocalhost ==
  /\ pc = "start"
  /\ flag' = [op |-> "local", val |-> httpAddrLocalhost(addr)]
  /\ pc' = "done"
  /\ UNCHANGED <<src, name, cg, sys, ret, calls, held, addr, other, str>>

\* the caller asks whether its address is the "any" address
AddrAny ==
  /\ pc = "start"
  /\ flag' = [op |-> "any", val |-> httpAddrAny(addr)]
  /\ pc' = "done"
  /\ UNCHANGED <<src, name, cg, sys, ret, calls, held, addr, other, str>>

NextAddr == AddrEqual \/ AddrLocalhost \/ AddrAny

SpecAddr == InitAddr /\ [][NextAddr]_vars

\* C9: httpAddrEqual is false when the families differ; for one family it is
\* decided by the address part alone (the path, the 16 IPv6 bytes, the IPv4
\* address): two addresses that differ only in port compare equal.
C9_EqualIgnoresPort ==
  (pc = "done" /\ flag.op = "equal") =>
    /\ addr.sa_family # other.sa_family => ~flag.val
    /\ (addr.sa_family = other.sa_family /\ addr.sa_family = AF_LOCAL) =>
         (flag.val <=> addr.sun_path = other.sun_path)
    /\ (addr.sa_family = other.sa_family /\ addr.sa_family = AF_INET6) =>
         (flag.val <=> addr.sin6_addr = other.sin6_addr)
    /\ (addr.sa_family = other.sa_family /\ addr.sa_family = AF_INET) =>
         (flag.val <=> addr.sin_addr = other.sin_addr)
    /\ (addr.sa_family \in {AF_INET, AF_INET6}
          /\ other = [addr EXCEPT !.port = other.port]) => flag.val

\* two IPv4 addresses that differ in port only have been compared
C9_Witness ==
  /\ pc = "done"
  /\ flag.op = "equal"
  /\ addr.sa_family = AF_INET
  /\ addr.port # other.port
  /\ other = [addr EXCEPT !.port = other.port]
  /\ flag.val

\* C10: httpAddrLocalhost is true exactly for the IPv6 loopback and
\* unspecified addresses, every Unix-domain address, and the IPv4 address
\* 127.0.0.1; not for 127.0.0.2 or 0.0.0.0.
C10_LocalhostExact ==
  (pc = "done" /\ flag.op = "local") =>
    (flag.val <=>
       \/ /\ addr.sa_family = AF_INET6
          /\ \/ addr.sin6_addr = ZeroAddr
             \/ addr.sin6_addr = [ZeroAddr EXCEPT ![3] = <<0, 0, 0, 1>>]
       \/ addr.sa_family = AF_LOCAL
       \/ addr.sa_family = AF_INET /\ addr.sin_addr = <<127, 0, 0, 1>>)

\* 127.0.0.2 has been found not to be the local host
C10_Witness ==
  /\ pc = "done"
  /\ flag.op = "local"
  /\ addr.sa_family = AF_INET
  /\ addr.sin_addr = <<127, 0, 0, 2>>
  /\ ~flag.val

\* ------------------------------------------------------------------------
\* Names and texts of addresses (SpecText)
\* ------------------------------------------------------------------------

\* the words an IPv6 address of the caller is made of, as memory
Words6 == {ZeroMem, <<0, 0, 0, 1>>, <<254, 128, 18, 171>>}

\* the addresses the caller looks up and prints
TextAddresses ==
  { HttpAddr(fam, htons(631), a4, a6, path) :
      fam \in {AF_UNSPEC, AF_LOCAL, AF_INET, AF_INET6},
      a4 \in {ZeroMem, <<192, 168, 0, 1>>},
      a6 \in [0..3 -> Words6],
      path \in {<<>>, <<"/", "a">>} }

\* what gethostbyaddr may answer: no host entry, or one with a name
ReverseAnswers ==
  { [found |-> FALSE, h_name |-> <<>>],
    [found |-> TRUE, h_name |-> CanonName] }

InitText ==
  /\ pc = "start"
  /\ src = Source("none", <<>>, <<>>)
  /\ name = <<>>
  /\ cg = InitGlobals
  /\ sys = NoHost
  /\ ret = "NULL"
  /\ calls = <<>>
  /\ held = [ptr |-> "NULL", view |-> NoHost]
  /\ addr \in TextAddresses
  /\ other = ZeroHttpAddr
  /\ str \in {<<>>, Garbage}
  /\ flag = [op |-> "none", val |-> FALSE]

\* the caller looks up the name of its address
TextLookup ==
  /\ pc = "start"
  /\ \E answer \in ReverseAnswers :
       LET o == httpAddrLookup(addr, str, BufLen, answer)
       IN /\ src' = [kind |-> "lookup", answer |-> answer]
          /\ str' = o.name
          /\ ret' = o.ret
          /\ calls' = o.calls
  /\ pc' = "looked"
  /\ UNCHANGED <<name, cg, sys, held, addr, other, flag>>

\* the caller prints its address
TextString ==
  /\ pc = "start"
  /\ str' = httpAddrString(addr, BufLen)
  /\ pc' = "rendered"
  /\ UNCHANGED <<src, name, cg, sys, ret, calls, held, addr, other, flag>>

\* the caller resolves the text printed
TextResolve ==
  /\ pc = "rendered"
  /\ LET o == httpGetHostByName(str, NoEnv, cg, sys)
     IN /\ name' = str
        /\ cg' = o.cg
        /\ sys' = o.sys
        /\ ret' = o.ret
        /\ calls' = o.calls
  /\ pc' = "reparsed"
  /\ UNCHANGED <<src, held, addr, other, str, flag>>

\* the caller loads the first address of the host entry into a second address
TextLoad ==
  /\ pc = "reparsed"
  /\ ret # "NULL"
  /\ \E port \in Ports : other' = httpAddrLoad(Deref(ret, cg, sys), port, 0, other)
  /\ pc' = "reloaded"
  /\ UNCHANGED <<src, name, cg, sys, ret, calls, held, addr, str, flag>>

\* the caller compares the address it printed with the one it loaded
TextEqual ==
  /\ pc = "reloaded"
  /\ flag' = [op |-> "equal", val |-> httpAddrEqual(addr, other)]
  /\ pc' = "compared"
  /\ UNCHANGED <<src, name, cg, sys, ret, calls, held, addr, other, str>>

NextText == TextLookup \/ TextString \/ TextResolve \/ TextLoad \/ TextEqual

SpecText == InitText /\ [][NextText]_vars

Unknown == <<"U", "N", "K", "N", "O", "W", "N">>

\* what C11 says of the return value and the facility, and of the buffer
\* where the lookup fails or the family is unknown
LookupOutcome ==
  /\ addr.sa_family = AF_LOCAL =>
       ret = "name" /\ str = addr.sun_path /\ calls = <<>>
  /\ (addr.sa_family \in {AF_INET, AF_INET6} /\ src.answer.found) =>
       ret = "name" /\ str = src.answer.h_name /\ calls = <<"gethostbyaddr">>
  /\ (addr.sa_family \in {AF_INET, AF_INET6} /\ ~src.answer.found) =>
       ret = "NULL" /\ str = httpAddrString(addr, BufLen) /\ str # <<>>
  /\ addr.sa_family = AF_INET /\ addr.sin_addr = <<192, 168, 0, 1>>
       /\ ~src.answer.found =>
       str = <<"1", "9", "2", ".", "1", "6", "8", ".", "0", ".", "1">>
  /\ addr.sa_family = AF_UNSPEC =>
       ret = "NULL" /\ str = Unknown /\ calls = <<>>

\* C11 as stated: httpAddrLookup always leaves a non-empty string in the
\* buffer: the path of a Unix-domain address, returned as success with no
\* reverse query; the resolved name of an IPv4/IPv6 address on success; on
\* failure or an unknown family the httpAddrString text ("UNKNOWN" for an
\* unknown family), with NULL returned.
C11_LookupAlwaysNamed ==
  pc = "looked" => (LookupOutcome /\ str # <<>>)

\* C11 as amended: the same, the string being non-empty for every address but
\* a Unix-domain address with an empty path, whose (empty) path is returned.
C11_LookupNamedButEmptyPath ==
  pc = "looked" =>
    /\ LookupOutcome
    /\ ~(addr.sa_family = AF_LOCAL /\ addr.sun_path = <<>>) => str # <<>>

\* a reverse lookup of an IPv6 address has failed and the buffer holds its text
C11_Witness ==
  /\ pc = "looked"
  /\ addr.sa_family = AF_INET6
  /\ ~src.answer.found
  /\ ret = "NULL"
  /\ str = <<"[", "0", ":", "0", ":", "0", ":", "1", "]">>

\* C12: for every IPv6 address, the text httpAddrString prints resolves with
\* httpGetHostByName, and the address httpAddrLoad loads from the result is
\* equal, by httpAddrEqual, to the address printed.
C12_Ipv6TextRoundTrip ==
  /\ (pc = "reparsed" /\ addr.sa_family = AF_INET6) => ret = "cg"
  /\ (pc = "compared" /\ addr.sa_family = AF_INET6) => flag.val

\* an IPv6 address with zero groups and letters among its digits has made the
\* round trip
C12_Witness ==
  /\ pc = "compared"
  /\ addr.sa_family = AF_INET6
  /\ addr.sin6_addr = [w \in 0..3 |-> IF w = 0 THEN <<254, 128, 18, 171>>
                                      ELSE IF w = 3 THEN <<0, 0, 0, 1>>
                                      ELSE ZeroMem]
  /\ other.sin6_addr = addr.sin6_addr
  /\ flag.val

====
